---- MODULE Spec2Model ----
(***************************************************************************)
(* A model of checkstatus_quect.py, the modem connectivity watchdog.       *)
(*                                                                         *)
(* Three parts, each with its own specification over the shared variables: *)
(*   SpecCheck  check_connectivity_parallel and its per-host tasks         *)
(*   SpecProbe  detect_at_port, its test_port threads and polling caller   *)
(*   SpecMain   main, restart_connection, netdiag_log and fail_safe        *)
(***************************************************************************)
EXTENDS Integers, Sequences, FiniteSets, TLC

VARIABLES
    \* ---- check_connectivity_parallel ----
    ccRaw,          \* per task: what the host does ("ok", "err", "exc")
    ccCompleted,    \* the futures in the order they completed
    ccPos,          \* how many of them as_completed has handed to the caller
    dns_ok,         \* line 166
    ping_ok,        \* line 167
    ccPc,           \* caller: "as_completed", "shutdown", "done"
    ccRet,          \* "none" until a return statement ran, then "True"/"False"
    \* ---- detect_at_port ----
    candidates,     \* line 89: the discovered device nodes, in enumeration order
    behaviour,      \* per candidate: what the device does when probed
    found_flag,     \* line 94: threading.Event
    found_port,     \* line 95: found_port[0]
    tpc,            \* per candidate: where its test_port thread is
    taskOpen,       \* the candidates whose test_port thread holds the device open
    writers,        \* the threads that stored into found_port[0], in order
    cpc,            \* the caller of detect_at_port
    clock,          \* whole seconds since "start = time.time()" (line 117)
    sigPort,        \* the port get_signal_strength was called with (line 127)
    callerOpen,     \* the port the caller holds open in get_signal_strength
    ret,            \* what detect_at_port returned
    sawFlag,        \* whether the caller left its loop with found_flag set
    sigResult,      \* what get_signal_strength logged ("none" before it ran)
    report,         \* the signal report it logged, <<>> when there is none
    \* ---- main, fail_safe ----
    mpc,            \* where main is: the state of the transition table, or "done"
    phase,          \* the recovery tier main is in
    outcome,        \* "running", "online", "reboot" or "error" (uncaught exception)
    log,            \* the steps of this invocation, in order, each with its result
    at_port,        \* line 364
    at_port_failsafe, \* line 380
    fsPc,           \* where fail_safe is
    at_port_dns,    \* line 312
    dns_servers,    \* line 313
    resolv_conf,    \* the nameserver lines written at lines 348-351
    invocation,     \* which run of the watchdog this is
    \* ---- the parsers on their own ----
    ppc,            \* which parser runs, and whether it has
    response,       \* line 320: the lines of the reply to AT+CGCONTRDP=1
    sig_resp        \* line 62: the reply to AT+QENG="servingcell"

ccVars == <<ccRaw, ccCompleted, ccPos, dns_ok, ping_ok, ccPc, ccRet>>

probeVars == <<candidates, behaviour, found_flag, found_port, tpc, taskOpen,
               writers, cpc, clock, sigPort, callerOpen, ret, sawFlag, sigResult,
               report>>

mainVars == <<mpc, phase, outcome, log, at_port, at_port_failsafe, fsPc,
              at_port_dns, dns_servers, resolv_conf, invocation>>

parseVars == <<ppc, response, sig_resp>>

vars == <<ccVars, probeVars, mainVars, parseVars>>

(***************************************************************************)
(* Connectivity check (lines 135-197)                                      *)
(***************************************************************************)
NumDnsHosts == 3
NumPingHosts == 2

DnsTasks == 1..NumDnsHosts
PingTasks == (NumDnsHosts + 1)..(NumDnsHosts + NumPingHosts)
CheckTasks == DnsTasks \cup PingTasks

\* What a host does when its check runs: the lookup resolves / ping exits 0
\* ("ok"), socket.gaierror / ping exits non-zero ("err"), or any other
\* exception is raised by the call ("exc").
RawOutcomes == {"ok", "err", "exc"}

\* futures[future]: the kind of check a task was submitted as.
check_type(t) == IF t \in DnsTasks THEN "dns" ELSE "ping"

\* Only socket.gaierror is caught: any other exception leaves the task.
check_dns_host(raw) ==
    CASE raw = "ok"  -> "True"
      [] raw = "err" -> "False"
      [] OTHER       -> "raise"

\* "except Exception" catches whatever subprocess.run raises.
check_ping_host(raw) ==
    IF raw = "ok" THEN "True" ELSE "False"

\* future.result() of task t.
FutureResult(raw, t) ==
    IF check_type(t) = "dns" THEN check_dns_host(raw[t]) ELSE check_ping_host(raw[t])

SuccessPredicateAny(d, p) == d \/ p

\* line 192
SuccessPredicate(d, p) == d /\ p

\* A submitted task runs to completion and its future joins the completed ones.
TaskComplete(t) ==
    /\ t \notin {ccCompleted[i] : i \in 1..Len(ccCompleted)}
    /\ ccCompleted' = Append(ccCompleted, t)
    /\ UNCHANGED <<ccRaw, ccPos, dns_ok, ping_ok, ccPc, ccRet>>
    /\ UNCHANGED <<probeVars, mainVars, parseVars>>

\* One iteration of "for future in as_completed(futures)" (lines 177-194).
CheckNextFuture ==
    /\ ccPc = "as_completed"
    /\ ccPos < Len(ccCompleted)
    /\ LET t == ccCompleted[ccPos + 1]
           result == FutureResult(ccRaw, t)
           raised == result = "raise"
           d == IF ~raised /\ check_type(t) = "dns" /\ result = "True" THEN TRUE ELSE dns_ok
           p == IF ~raised /\ check_type(t) = "ping" /\ result = "True" THEN TRUE ELSE ping_ok
       IN  /\ ccPos' = ccPos + 1
           /\ dns_ok' = d
           /\ ping_ok' = p
           /\ IF ~raised /\ SuccessPredicate(d, p)
                THEN ccPc' = "shutdown" /\ ccRet' = "True"
                ELSE UNCHANGED <<ccPc, ccRet>>
    /\ UNCHANGED <<ccRaw, ccCompleted>>
    /\ UNCHANGED <<probeVars, mainVars, parseVars>>

\* as_completed is exhausted: every future was handed over (lines 196-197).
CheckExhausted ==
    /\ ccPc = "as_completed"
    /\ ccPos = Cardinality(CheckTasks)
    /\ ccPc' = "shutdown"
    /\ ccRet' = "False"
    /\ UNCHANGED <<ccRaw, ccCompleted, ccPos, dns_ok, ping_ok>>
    /\ UNCHANGED <<probeVars, mainVars, parseVars>>

\* Leaving "with ThreadPoolExecutor()" (line 169): shutdown(wait=True) joins
\* every worker before the return statement's value reaches the caller.
CheckShutdown ==
    /\ ccPc = "shutdown"
    /\ Len(ccCompleted) = Cardinality(CheckTasks)
    /\ ccPc' = "done"
    /\ UNCHANGED <<ccRaw, ccCompleted, ccPos, dns_ok, ping_ok, ccRet>>
    /\ UNCHANGED <<probeVars, mainVars, parseVars>>

CheckStart ==
    /\ ccRaw \in [CheckTasks -> RawOutcomes]
    /\ ccCompleted = <<>>
    /\ ccPos = 0
    /\ dns_ok = FALSE
    /\ ping_ok = FALSE
    /\ ccPc = "as_completed"
    /\ ccRet = "none"

\* The check is not running.
CheckIdle ==
    /\ ccRaw = [t \in CheckTasks |-> "ok"]
    /\ ccCompleted = <<>>
    /\ ccPos = 0
    /\ dns_ok = FALSE
    /\ ping_ok = FALSE
    /\ ccPc = "idle"
    /\ ccRet = "none"

(***************************************************************************)
(* Signal strength (lines 52-82)                                           *)
(***************************************************************************)
MaxReplyLen == 8

\* The characters of a reply that matter to re.findall(r'-?\d+\.?\d*', ...):
\* a digit, the sign, the decimal point, and a separator.
Digits == {"1"}
SigChars == Digits \cup {"-", ".", ","}

RECURSIVE DigitRun(_, _)
\* The position after the digits that start at position i (i when there are none).
DigitRun(s, i) ==
    IF i <= Len(s) /\ s[i] \in Digits THEN DigitRun(s, i + 1) ELSE i

\* The position after the match of \d+\.?\d* whose first digit is at position i.
TokenEnd(s, i) ==
    LET j == DigitRun(s, i)
    IN  IF j <= Len(s) /\ s[j] = "." THEN DigitRun(s, j + 1) ELSE j

RECURSIVE FindNumbers(_, _)
\* re.findall(r'-?\d+\.?\d*', s) from position i on: the non-overlapping
\* matches, left to right (line 66).
FindNumbers(s, i) ==
    IF i > Len(s) THEN <<>>
    ELSE IF s[i] = "-" /\ i + 1 <= Len(s) /\ s[i + 1] \in Digits
      THEN LET e == TokenEnd(s, i + 1)
           IN  <<SubSeq(s, i, e - 1)>> \o FindNumbers(s, e)
    ELSE IF s[i] \in Digits
      THEN LET e == TokenEnd(s, i)
           IN  <<SubSeq(s, i, e - 1)>> \o FindNumbers(s, e)
    ELSE FindNumbers(s, i + 1)

HasPoint(tok) == \E k \in 1..Len(tok) : tok[k] = "."

DigitValue(c) == IF c = "1" THEN 1 ELSE 0

RECURSIVE DigitsValue(_, _)
\* The decimal value of the digits of tok, read after the digits worth acc.
DigitsValue(tok, acc) ==
    IF tok = <<>> THEN acc
    ELSE IF Head(tok) \in Digits
      THEN DigitsValue(Tail(tok), 10 * acc + DigitValue(Head(tok)))
      ELSE DigitsValue(Tail(tok), acc)

Signed(tok, n) == IF tok # <<>> /\ Head(tok) = "-" THEN 0 - n ELSE n

\* int(tok) for a token without a decimal point (with one, int raises
\* ValueError).
IntOf(tok) == Signed(tok, DigitsValue(tok, 0))

RECURSIVE AfterPoint(_)
AfterPoint(tok) ==
    IF tok = <<>> THEN 0
    ELSE IF Head(tok) = "." THEN Len(tok) - 1
    ELSE AfterPoint(Tail(tok))

\* float(tok): the number num / 10^scale.
FloatOf(tok) ==
    [num |-> Signed(tok, DigitsValue(tok, 0)), scale |-> AfterPoint(tok)]

\* What a session on the device does: the exchange works, ser.write raises
\* (write timeout), or ser.read raises (the device went away).
IoOutcomes == {"ok", "write_fail", "read_fail"}

\* "numbers[-4:]" (line 72)
LastFour(numbers) == SubSeq(numbers, Len(numbers) - 3, Len(numbers))

\* The body of the try block (lines 57-80): the exception that leaves it
\* ("none" when it completes), the message logged, and the report.
SignalTry(opened, io, resp) ==
    IF ~opened THEN [exc |-> "SerialException", result |-> "none", report |-> <<>>]
    ELSE IF io # "ok" THEN [exc |-> "SerialException", result |-> "none", report |-> <<>>]
    ELSE IF ~resp.marker THEN [exc |-> "none", result |-> "unexpected", report |-> <<>>]
    ELSE LET numbers == FindNumbers(resp.body, 1)
         IN  IF Len(numbers) < 4
               THEN [exc |-> "none", result |-> "incomplete", report |-> <<>>]
               ELSE LET four == LastFour(numbers)
                    IN  IF \E k \in 1..3 : HasPoint(four[k])
                          THEN [exc |-> "ValueError", result |-> "none", report |-> <<>>]
                          ELSE [exc |-> "none", result |-> "report",
                                report |-> <<IntOf(four[1]), IntOf(four[2]),
                                             IntOf(four[3]), FloatOf(four[4])>>]

CatchesSerialOnly(exc) == exc = "SerialException"

\* "except Exception as e" (line 81)
Catches(exc) == exc \in {"SerialException", "ValueError"}

\* get_signal_strength(port): what it logged (for "Signal check error" the
\* exception caught) and the report in the log line; result "raise" when an
\* exception leaves the function.
get_signal_strength(opened, io, resp) ==
    LET t == SignalTry(opened, io, resp)
    IN  IF t.exc = "none" THEN [result |-> t.result, report |-> t.report]
        ELSE IF Catches(t.exc) THEN [result |-> t.exc, report |-> <<>>]
        ELSE [result |-> "raise", report |-> <<>>]

\* Replies the modem may send to the caller of detect_at_port.
ProbeSignalReplies ==
    { [marker |-> FALSE, body |-> <<"1", ",", "1", ",", "1", ",", "1">>],
      [marker |-> TRUE,  body |-> <<"1", ",", "-", "1", ",", "1">>],
      [marker |-> TRUE,  body |-> <<"-", "1", "1", ",", "-", "1", ",", "1", ",", "1", ".", "1">>],
      [marker |-> TRUE,  body |-> <<"1", ".", "1", ",", "1", ",", "1", ",", "1">>] }

(***************************************************************************)
(* AT port detection (lines 86-131)                                        *)
(***************************************************************************)
MaxCandidates == 2

\* found_port = [None] (line 95); device nodes are numbered from 1.
None == 0

\* detect_at_port(timeout=5), in seconds.
timeout == 5

\* What a candidate device does when test_port probes it:
\*   "ack"    the reply to AT contains OK within the read window
\*   "noack"  the read window passes without OK, or the write fails
\*   "raise"  serial.Serial(port, ...) raises (the device cannot be opened)
\*   "hang"   the thread blocks in serial.Serial(port, ...) and never returns
Behaviours == {"ack", "noack", "raise", "hang"}

Port(i) == candidates[i]

\* "if found_flag.is_set(): return" (line 98)
TestPortEnter(i) ==
    /\ i \in DOMAIN tpc
    /\ tpc[i] = "enter"
    /\ tpc' = [tpc EXCEPT ![i] = IF found_flag THEN "done" ELSE "open"]
    /\ UNCHANGED <<candidates, behaviour, found_flag, found_port, taskOpen,
                   writers, cpc, clock, sigPort, callerOpen, ret>>
    /\ UNCHANGED <<sawFlag, sigResult, report>>
    /\ UNCHANGED <<ccVars, mainVars, parseVars>>

\* "with serial.Serial(port, 115200, timeout=0.1, write_timeout=0.1) as ser"
\* (line 101); an exception ends the thread (lines 109-110).
TestPortOpen(i) ==
    /\ i \in DOMAIN tpc
    /\ tpc[i] = "open"
    /\ behaviour[i] # "hang"
    /\ IF behaviour[i] = "raise"
         THEN /\ tpc' = [tpc EXCEPT ![i] = "done"]
              /\ UNCHANGED taskOpen
         ELSE /\ tpc' = [tpc EXCEPT ![i] = "exchange"]
              /\ taskOpen' = taskOpen \cup {i}
    /\ UNCHANGED <<candidates, behaviour, found_flag, found_port,
                   writers, cpc, clock, sigPort, callerOpen, ret>>
    /\ UNCHANGED <<sawFlag, sigResult, report>>
    /\ UNCHANGED <<ccVars, mainVars, parseVars>>

TestPortExchangeAnyReply(i) ==
    /\ i \in DOMAIN tpc
    /\ tpc[i] = "exchange"
    /\ tpc' = [tpc EXCEPT ![i] = "recheck"]
    /\ UNCHANGED <<candidates, behaviour, found_flag, found_port, taskOpen,
                   writers, cpc, clock, sigPort, callerOpen, ret>>
    /\ UNCHANGED <<sawFlag, sigResult, report>>
    /\ UNCHANGED <<ccVars, mainVars, parseVars>>

\* ser.write(b"AT\r"); resp = ser.read(64); if b"OK" in resp (lines 102-104)
TestPortExchange(i) ==
    /\ i \in DOMAIN tpc
    /\ tpc[i] = "exchange"
    /\ tpc' = [tpc EXCEPT ![i] = IF behaviour[i] = "ack" THEN "recheck" ELSE "close"]
    /\ UNCHANGED <<candidates, behaviour, found_flag, found_port, taskOpen,
                   writers, cpc, clock, sigPort, callerOpen, ret>>
    /\ UNCHANGED <<sawFlag, sigResult, report>>
    /\ UNCHANGED <<ccVars, mainVars, parseVars>>

\* "if not found_flag.is_set():" (line 105)
TestPortRecheck(i) ==
    /\ i \in DOMAIN tpc
    /\ tpc[i] = "recheck"
    /\ tpc' = [tpc EXCEPT ![i] = IF found_flag THEN "close" ELSE "set"]
    /\ UNCHANGED <<candidates, behaviour, found_flag, found_port, taskOpen,
                   writers, cpc, clock, sigPort, callerOpen, ret>>
    /\ UNCHANGED <<sawFlag, sigResult, report>>
    /\ UNCHANGED <<ccVars, mainVars, parseVars>>

\* "found_flag.set()" (line 106)
TestPortSetFlag(i) ==
    /\ i \in DOMAIN tpc
    /\ tpc[i] = "set"
    /\ found_flag' = TRUE
    /\ tpc' = [tpc EXCEPT ![i] = "store"]
    /\ UNCHANGED <<candidates, behaviour, found_port, taskOpen,
                   writers, cpc, clock, sigPort, callerOpen, ret>>
    /\ UNCHANGED <<sawFlag, sigResult, report>>
    /\ UNCHANGED <<ccVars, mainVars, parseVars>>

\* "found_port[0] = port" (line 107)
TestPortStore(i) ==
    /\ i \in DOMAIN tpc
    /\ tpc[i] = "store"
    /\ found_port' = Port(i)
    /\ writers' = Append(writers, i)
    /\ tpc' = [tpc EXCEPT ![i] = "close"]
    /\ UNCHANGED <<candidates, behaviour, found_flag, taskOpen,
                   cpc, clock, sigPort, callerOpen, ret>>
    /\ UNCHANGED <<sawFlag, sigResult, report>>
    /\ UNCHANGED <<ccVars, mainVars, parseVars>>

TestPortCloseLeaks(i) ==
    /\ i \in DOMAIN tpc
    /\ tpc[i] = "close"
    /\ tpc' = [tpc EXCEPT ![i] = "done"]
    /\ UNCHANGED <<candidates, behaviour, found_flag, found_port, taskOpen,
                   writers, cpc, clock, sigPort, callerOpen, ret>>
    /\ UNCHANGED <<sawFlag, sigResult, report>>
    /\ UNCHANGED <<ccVars, mainVars, parseVars>>

\* Leaving the "with" block of line 101 closes the device.
TestPortClose(i) ==
    /\ i \in DOMAIN tpc
    /\ tpc[i] = "close"
    /\ taskOpen' = taskOpen \ {i}
    /\ tpc' = [tpc EXCEPT ![i] = "done"]
    /\ UNCHANGED <<candidates, behaviour, found_flag, found_port,
                   writers, cpc, clock, sigPort, callerOpen, ret>>
    /\ UNCHANGED <<sawFlag, sigResult, report>>
    /\ UNCHANGED <<ccVars, mainVars, parseVars>>

\* Lines 88-117: no candidates returns None; otherwise one test_port per
\* candidate is submitted to a pool with a worker for each, and the clock starts.
DetectSubmit ==
    /\ cpc = "start"
    /\ IF candidates = <<>>
         THEN /\ cpc' = "done"
              /\ ret' = None
              /\ UNCHANGED tpc
         ELSE /\ cpc' = "poll"
              /\ tpc' = [i \in DOMAIN candidates |-> "enter"]
              /\ UNCHANGED ret
    /\ UNCHANGED <<candidates, behaviour, found_flag, found_port, taskOpen,
                   writers, clock, sigPort, callerOpen>>
    /\ UNCHANGED <<sawFlag, sigResult, report>>
    /\ UNCHANGED <<ccVars, mainVars, parseVars>>

PollsWithoutDeadline(flag, elapsed) == ~flag

\* "while not found_flag.is_set() and time.time() - start < timeout" (line 118)
Polls(flag, elapsed) == ~flag /\ elapsed < timeout

\* The serial timeouts of line 101 bound an exchange far below the timeout of
\* the caller: a thread that is not blocked in the open has ended by then.
ThreadsInTime ==
    \A i \in DOMAIN tpc : behaviour[i] = "hang" \/ tpc[i] = "done"

\* A second passes while the caller sleeps in its loop (line 119).
Tick ==
    /\ cpc = "poll"
    /\ clock < timeout
    /\ clock + 1 < timeout \/ ThreadsInTime
    /\ clock' = clock + 1
    /\ UNCHANGED <<candidates, behaviour, found_flag, found_port, tpc, taskOpen,
                   writers, cpc, sigPort, callerOpen, ret>>
    /\ UNCHANGED <<sawFlag, sigResult, report>>
    /\ UNCHANGED <<ccVars, mainVars, parseVars>>

\* The loop condition of line 118 is false.
DetectPollExit ==
    /\ cpc = "poll"
    /\ ~Polls(found_flag, clock)
    /\ cpc' = "read"
    /\ UNCHANGED <<candidates, behaviour, found_flag, found_port, tpc, taskOpen,
                   writers, clock, sigPort, callerOpen, ret>>
    /\ sawFlag' = found_flag
    /\ UNCHANGED <<sigResult, report>>
    /\ UNCHANGED <<ccVars, mainVars, parseVars>>

\* "if found_port[0]:" (line 124), else lines 130-131.
DetectReadSlot ==
    /\ cpc = "read"
    /\ IF found_port # None
         THEN /\ cpc' = "signal"
              /\ UNCHANGED ret
         ELSE /\ cpc' = "done"
              /\ ret' = None
    /\ UNCHANGED <<candidates, behaviour, found_flag, found_port, tpc, taskOpen,
                   writers, clock, sigPort, callerOpen>>
    /\ UNCHANGED <<sawFlag, sigResult, report>>
    /\ UNCHANGED <<ccVars, mainVars, parseVars>>

\* time.sleep(0.2); get_signal_strength(found_port[0]) (lines 126-127): the
\* device is opened (line 57) unless the open raises, which line 81 catches.
SignalOpen ==
    /\ cpc = "signal"
    /\ sigPort' = found_port
    /\ \E opened \in BOOLEAN :
         IF opened
           THEN /\ callerOpen' = found_port
                /\ cpc' = "signal_close"
                /\ UNCHANGED <<sigResult, report>>
           ELSE LET r == get_signal_strength(FALSE, "ok", [marker |-> FALSE, body |-> <<>>])
                IN  /\ sigResult' = r.result
                    /\ report' = r.report
                    /\ cpc' = IF r.result = "raise" THEN "raised" ELSE "return"
                    /\ UNCHANGED callerOpen
    /\ UNCHANGED <<candidates, behaviour, found_flag, found_port, tpc, taskOpen,
                   writers, clock, ret, sawFlag>>
    /\ UNCHANGED <<ccVars, mainVars, parseVars>>

\* Lines 58-82: the exchange and the parse, then the "with" block closes the
\* device; an exception that line 81 does not catch leaves detect_at_port.
SignalClose ==
    /\ cpc = "signal_close"
    /\ callerOpen' = None
    /\ \E io \in IoOutcomes, resp \in ProbeSignalReplies :
         LET r == get_signal_strength(TRUE, io, resp)
         IN  /\ sigResult' = r.result
             /\ report' = r.report
             /\ cpc' = IF r.result = "raise" THEN "raised" ELSE "return"
    /\ UNCHANGED <<candidates, behaviour, found_flag, found_port, tpc, taskOpen,
                   writers, clock, sigPort, ret, sawFlag>>
    /\ UNCHANGED <<ccVars, mainVars, parseVars>>

\* "return found_port[0]" (line 128)
DetectReturn ==
    /\ cpc = "return"
    /\ ret' = found_port
    /\ cpc' = "done"
    /\ UNCHANGED <<candidates, behaviour, found_flag, found_port, tpc, taskOpen,
                   writers, clock, sigPort, callerOpen>>
    /\ UNCHANGED <<sawFlag, sigResult, report>>
    /\ UNCHANGED <<ccVars, mainVars, parseVars>>

\* detect_at_port is called with n candidates; get_quectel_ports resolves
\* each matching entry to its own device node.
ProbeStart ==
    /\ \E n \in 0..MaxCandidates :
         /\ candidates = [i \in 1..n |-> i]
         /\ behaviour \in [1..n -> Behaviours]
    /\ found_flag = FALSE
    /\ found_port = None
    /\ tpc = <<>>
    /\ taskOpen = {}
    /\ writers = <<>>
    /\ cpc = "start"
    /\ clock = 0
    /\ sigPort = None
    /\ callerOpen = None
    /\ ret = None
    /\ sawFlag = FALSE
    /\ sigResult = "none"
    /\ report = <<>>

\* detect_at_port is not running.
ProbeIdle ==
    /\ candidates = <<>>
    /\ behaviour = <<>>
    /\ found_flag = FALSE
    /\ found_port = None
    /\ tpc = <<>>
    /\ taskOpen = {}
    /\ writers = <<>>
    /\ cpc = "idle"
    /\ clock = 0
    /\ sigPort = None
    /\ callerOpen = None
    /\ ret = None
    /\ sawFlag = FALSE
    /\ sigResult = "none"
    /\ report = <<>>

(***************************************************************************)
(* Diagnostics, soft restart, fail-safe and main (lines 201-392)           *)
(***************************************************************************)
MaxInvocations == 2

\* What detect_at_port can hand to main and fail_safe: None or a device node.
ProbeResults == {None} \cup (1..MaxCandidates)

\* The states of the transition table in which a connectivity check runs.
CheckStates == {"CHECK", "RECHECK1", "RECHECK2"}

RECURSIVE AsCompleted(_, _, _, _)
\* The loop of lines 177-194 over the futures in the order `order`,
\* with dns_ok = d and ping_ok = p; lines 196-197 when it is exhausted.
AsCompleted(raw, order, d, p) ==
    IF order = <<>>
      THEN "False"
      ELSE LET t == Head(order)
               result == FutureResult(raw, t)
               raised == result = "raise"
               d2 == IF ~raised /\ check_type(t) = "dns" /\ result = "True" THEN TRUE ELSE d
               p2 == IF ~raised /\ check_type(t) = "ping" /\ result = "True" THEN TRUE ELSE p
           IN  IF ~raised /\ SuccessPredicate(d2, p2)
                 THEN "True"
                 ELSE AsCompleted(raw, Tail(order), d2, p2)

\* check_connectivity_parallel() when the hosts behave as `raw`.
check_connectivity_parallel(raw) ==
    AsCompleted(raw, [i \in 1..Cardinality(CheckTasks) |-> i], FALSE, FALSE)

\* netdiag_log(interface) called with the positional arguments `args`: the call
\* binds only with exactly one; the commands run through log_cmd, which catches
\* their failures (lines 201-209); the append to NETDIAG_FILE (lines 242-243)
\* is outside any try.
netdiag_log(args, fileOk) ==
    IF Len(args) # 1 THEN "TypeError"
    ELSE IF fileOk THEN "ok"
    ELSE "OSError"

\* What a service command run through subprocess.run(..., timeout=...) does.
ServiceOutcomes == {"ok", "fail", "timeout"}

\* restart_connection(): each of the three commands either completes (whatever
\* its exit status) or raises TimeoutExpired, which is caught (lines 252-280).
restart_connection(usb, quectel, vpn) ==
    IF "timeout" \in {usb, quectel, vpn} THEN "timeout" ELSE "completed"

AfterCheckFallThrough(pc, r) ==
    CASE pc = "CHECK"    -> IF r = "True" THEN "done" ELSE "DIAGNOSE"
      [] pc = "RECHECK1" -> "FAILSAFE_GATE"
      [] OTHER           -> IF r = "True" THEN "done" ELSE "REBOOT_PENDING"

AfterCheckRetry(pc, r) ==
    IF r = "True" THEN "done"
    ELSE CASE pc = "CHECK"    -> "DIAGNOSE"
           [] pc = "RECHECK1" -> "CHECK"
           [] OTHER           -> "REBOOT_PENDING"

\* Where main goes after the check at pc returned r (lines 366-368, 376-378,
\* 383-385).
AfterCheck(pc, r) ==
    IF r = "True" THEN "done"
    ELSE CASE pc = "CHECK"    -> "DIAGNOSE"
           [] pc = "RECHECK1" -> "FAILSAFE_GATE"
           [] OTHER           -> "REBOOT_PENDING"

\* The tier a state of the transition table belongs to (the comments of lines
\* 370, 379 and 390 name the tiers).
PhaseOf(pc) ==
    CASE pc \in {"PROBE", "CHECK"}                      -> "CHECK"
      [] pc \in {"DIAGNOSE", "SOFT_RESTART", "RECHECK1"} -> "SOFT_RESTART"
      [] pc \in {"FAILSAFE_GATE", "FAILSAFE", "RECHECK2", "DIAG_FALLBACK"}
                                                         -> "FAILSAFE"
      [] OTHER                                           -> "REBOOT_PENDING"

Logged(step, res) == Append(log, [at |-> step, res |-> res])

\* An uncaught exception leaves main.
Raised == mpc' = "done" /\ outcome' = "error"

\* main moves to nextPc; "done" is a return statement.
Goto(nextPc) ==
    /\ mpc' = nextPc
    /\ phase' = IF nextPc = "done" THEN phase ELSE PhaseOf(nextPc)

\* Lines 361-364: main first looks for the AT port.
MainProbe ==
    /\ mpc = "PROBE"
    /\ \E p \in ProbeResults :
         /\ at_port' = p
         /\ log' = Logged("PROBE", IF p = None THEN "none" ELSE "port")
    /\ Goto("CHECK")
    /\ UNCHANGED <<outcome, at_port_failsafe, fsPc, at_port_dns, dns_servers,
                   resolv_conf, invocation>>
    /\ UNCHANGED <<ccVars, probeVars, parseVars>>

\* "if check_connectivity_parallel(): ... return" at lines 366, 376 and 383.
MainCheck ==
    /\ mpc \in CheckStates
    /\ \E raw \in [CheckTasks -> RawOutcomes] :
         LET r == check_connectivity_parallel(raw)
         IN  /\ log' = Logged(mpc, r)
             /\ Goto(AfterCheck(mpc, r))
             /\ outcome' = IF mpc' = "done" THEN "online" ELSE outcome
    /\ UNCHANGED <<at_port, at_port_failsafe, fsPc, at_port_dns, dns_servers,
                   resolv_conf, invocation>>
    /\ UNCHANGED <<ccVars, probeVars, parseVars>>

\* netdiag_log("wwan0") (line 372)
MainDiagnose ==
    /\ mpc = "DIAGNOSE"
    /\ \E fileOk \in BOOLEAN :
         LET r == netdiag_log(<<"wwan0">>, fileOk)
         IN  /\ log' = Logged("DIAGNOSE", r)
             /\ IF r = "ok"
                  THEN Goto("SOFT_RESTART") /\ UNCHANGED outcome
                  ELSE Raised /\ UNCHANGED phase
    /\ UNCHANGED <<at_port, at_port_failsafe, fsPc, at_port_dns, dns_servers,
                   resolv_conf, invocation>>
    /\ UNCHANGED <<ccVars, probeVars, parseVars>>

\* restart_connection() (line 374)
MainSoftRestart ==
    /\ mpc = "SOFT_RESTART"
    /\ \E usb \in ServiceOutcomes, quectel \in ServiceOutcomes, vpn \in ServiceOutcomes :
         log' = Logged("SOFT_RESTART", restart_connection(usb, quectel, vpn))
    /\ Goto("RECHECK1")
    /\ UNCHANGED <<outcome, at_port, at_port_failsafe, fsPc, at_port_dns,
                   dns_servers, resolv_conf, invocation>>
    /\ UNCHANGED <<ccVars, probeVars, parseVars>>

\* "if at_port_failsafe:" (line 381)
Gate(p) == IF p # None THEN "FAILSAFE" ELSE "DIAG_FALLBACK"

\* at_port_failsafe = detect_at_port() and the branch on it (lines 380-382, 386).
MainFailsafeGate ==
    /\ mpc = "FAILSAFE_GATE"
    /\ \E p \in ProbeResults :
         /\ at_port_failsafe' = p
         /\ log' = Logged("FAILSAFE_GATE", IF p = None THEN "none" ELSE "port")
         /\ Goto(Gate(p))
         /\ fsPc' = IF mpc' = "FAILSAFE" THEN "stop" ELSE fsPc
    /\ UNCHANGED <<outcome, at_port, at_port_dns, dns_servers, resolv_conf,
                   invocation>>
    /\ UNCHANGED <<ccVars, probeVars, parseVars>>

\* netdiag_log("usb0") and the log line after it (lines 387-388)
MainDiagFallback ==
    /\ mpc = "DIAG_FALLBACK"
    /\ \E fileOk \in BOOLEAN :
         LET r == netdiag_log(<<"usb0">>, fileOk)
         IN  /\ log' = Logged("DIAG_FALLBACK", r)
             /\ IF r = "ok"
                  THEN Goto("REBOOT_PENDING") /\ UNCHANGED outcome
                  ELSE Raised /\ UNCHANGED phase
    /\ UNCHANGED <<at_port, at_port_failsafe, fsPc, at_port_dns, dns_servers,
                   resolv_conf, invocation>>
    /\ UNCHANGED <<ccVars, probeVars, parseVars>>

\* The reboot intent is logged; the reboot itself is commented out (391-392).
MainReboot ==
    /\ mpc = "REBOOT_PENDING"
    /\ log' = Logged("REBOOT_PENDING", "logged")
    /\ mpc' = "done"
    /\ outcome' = "reboot"
    /\ UNCHANGED <<phase, at_port, at_port_failsafe, fsPc, at_port_dns,
                   dns_servers, resolv_conf, invocation>>
    /\ UNCHANGED <<ccVars, probeVars, parseVars>>

(***************************************************************************)
(* fail_safe (lines 287-356)                                               *)
(***************************************************************************)
RECURSIVE LStrip(_, _)
LStrip(s, chars) ==
    IF s # <<>> /\ Head(s) \in chars THEN LStrip(Tail(s), chars) ELSE s

RECURSIVE RStrip(_, _)
RStrip(s, chars) ==
    IF s # <<>> /\ s[Len(s)] \in chars
      THEN RStrip(SubSeq(s, 1, Len(s) - 1), chars)
      ELSE s

\* str.strip(chars): a field is the sequence of its characters.
strip(s, chars) == RStrip(LStrip(s, chars), chars)

PartsUnstripped(fields) == fields

\* "parts = [p.strip().strip('"') for p in line.split(",")]" (line 325); a
\* line is given by the texts between its commas.
Parts(fields) == [i \in 1..Len(fields) |-> strip(strip(fields[i], {" "}), {"\""})]

RECURSIVE ParseDns(_)
\* The loop of lines 323-331 over the lines of the response: the first marker
\* line whose last two parts are non-empty gives dns_servers, else [].
ParseDns(lines) ==
    IF lines = <<>>
      THEN <<>>
      ELSE LET line == Head(lines)
               parts == Parts(line.fields)
           IN  IF /\ line.marker
                  /\ Len(parts) >= 2
                  /\ parts[Len(parts) - 1] # <<>>
                  /\ parts[Len(parts)] # <<>>
                 THEN <<parts[Len(parts) - 1], parts[Len(parts)]>>
                 ELSE ParseDns(Tail(lines))

\* Lines 343-346
GoogleDns == << <<"8.8.8.8">>, <<"8.8.4.4">> >>

ResolvConfNoFallback(servers) ==
    [i \in 1..Len(servers) |-> <<"nameserver", servers[i]>>]

\* Lines 336-346: one "nameserver" line per server, Google's when there is none.
ResolvConf(servers) ==
    LET used == IF servers # <<>> THEN servers ELSE GoogleDns
    IN  [i \in 1..Len(used) |-> <<"nameserver", used[i]>>]

MaxLines == 2

\* Lines the modem may send in reply to AT+CGCONTRDP=1.
ReplyLines ==
    { [marker |-> TRUE,
       fields |-> << <<"+CGCONTRDP: 1">>, <<"\"", "10.0.0.1", "\"">>, <<"\"", "10.0.0.2", "\"">> >>],
      [marker |-> TRUE,
       fields |-> << <<"+CGCONTRDP: 1">>, <<"\"", "10.0.0.1", "\"">>, <<" ", "\"", "\"">> >>],
      [marker |-> TRUE,
       fields |-> << <<"+CGCONTRDP: 1">>, <<>>, <<"10.0.0.3">> >>],
      [marker |-> TRUE,  fields |-> << <<"+CGCONTRDP: 1">> >>],
      [marker |-> FALSE, fields |-> << <<"OK">> >>],
      [marker |-> FALSE, fields |-> << <<"\"", "10.0.0.4", "\"">>, <<"10.0.0.5">> >>] }

RECURSIVE SeqsUpTo(_, _)
SeqsUpTo(S, n) ==
    IF n = 0 THEN {<<>>}
    ELSE LET shorter == SeqsUpTo(S, n - 1)
         IN  shorter \cup {Append(q, x) : q \in shorter, x \in S}

DnsReplies == SeqsUpTo(ReplyLines, MaxLines)

FsStep(step, res, nextFs) ==
    /\ log' = Logged(step, res)
    /\ fsPc' = nextFs

\* Lines 288-292: stop the connection service and the VPN service.
FsStop ==
    /\ mpc = "FAILSAFE" /\ fsPc = "stop"
    /\ FsStep("fs:stop", "completed", "switch")
    /\ UNCHANGED <<mpc, phase, outcome, at_port, at_port_failsafe, at_port_dns,
                   dns_servers, resolv_conf, invocation>>
    /\ UNCHANGED <<ccVars, probeVars, parseVars>>

\* Lines 294-300: the profile switch over at_port; an exception is caught.
FsSwitch ==
    /\ mpc = "FAILSAFE" /\ fsPc = "switch"
    /\ \E written \in BOOLEAN :
         FsStep("fs:switch", IF written THEN "written" ELSE "caught", "settle")
    /\ UNCHANGED <<mpc, phase, outcome, at_port, at_port_failsafe, at_port_dns,
                   dns_servers, resolv_conf, invocation>>
    /\ UNCHANGED <<ccVars, probeVars, parseVars>>

\* Lines 302-303
FsSettle ==
    /\ mpc = "FAILSAFE" /\ fsPc = "settle"
    /\ FsStep("fs:settle", "completed", "dhcp")
    /\ UNCHANGED <<mpc, phase, outcome, at_port, at_port_failsafe, at_port_dns,
                   dns_servers, resolv_conf, invocation>>
    /\ UNCHANGED <<ccVars, probeVars, parseVars>>

\* Lines 306-309
FsDhcp ==
    /\ mpc = "FAILSAFE" /\ fsPc = "dhcp"
    /\ FsStep("fs:dhcp", "completed", "probe")
    /\ UNCHANGED <<mpc, phase, outcome, at_port, at_port_failsafe, at_port_dns,
                   dns_servers, resolv_conf, invocation>>
    /\ UNCHANGED <<ccVars, probeVars, parseVars>>

\* Lines 311-313
FsProbe ==
    /\ mpc = "FAILSAFE" /\ fsPc = "probe"
    /\ \E p \in ProbeResults :
         /\ at_port_dns' = p
         /\ FsStep("fs:probe", IF p = None THEN "none" ELSE "port", "query")
    /\ dns_servers' = <<>>
    /\ UNCHANGED <<mpc, phase, outcome, at_port, at_port_failsafe, resolv_conf,
                   invocation>>
    /\ UNCHANGED <<ccVars, probeVars, parseVars>>

\* Lines 315-334: serial.Serial(None, ...) stays closed and the write raises;
\* any exception is caught and leaves dns_servers empty.
FsQuery ==
    /\ mpc = "FAILSAFE" /\ fsPc = "query"
    /\ \E opened \in BOOLEAN, reply \in DnsReplies :
         IF at_port_dns # None /\ opened
           THEN /\ dns_servers' = ParseDns(reply)
                /\ FsStep("fs:query", "read", "resolv")
           ELSE /\ dns_servers' = <<>>
                /\ FsStep("fs:query", "caught", "resolv")
    /\ UNCHANGED <<mpc, phase, outcome, at_port, at_port_failsafe, at_port_dns,
                   resolv_conf, invocation>>
    /\ UNCHANGED <<ccVars, probeVars, parseVars>>

\* Lines 336-351
FsResolv ==
    /\ mpc = "FAILSAFE" /\ fsPc = "resolv"
    /\ resolv_conf' = ResolvConf(dns_servers)
    /\ FsStep("fs:resolv", IF dns_servers # <<>> THEN "carrier" ELSE "fallback", "netdiag")
    /\ UNCHANGED <<mpc, phase, outcome, at_port, at_port_failsafe, at_port_dns,
                   dns_servers, invocation>>
    /\ UNCHANGED <<ccVars, probeVars, parseVars>>

\* The arguments of the call at line 353: netdiag_log()
NetdiagArgs == <<>>

\* Lines 353-356: the diagnostics dump, then the VPN service is started and
\* fail_safe returns to line 383 of main; an exception leaves both.
FsNetdiagVpn ==
    /\ mpc = "FAILSAFE" /\ fsPc = "netdiag"
    /\ \E fileOk \in BOOLEAN :
         LET r == netdiag_log(NetdiagArgs, fileOk)
         IN  IF r = "ok"
               THEN /\ log' = log \o << [at |-> "fs:netdiag", res |-> r],
                                        [at |-> "fs:vpn", res |-> "completed"] >>
                    /\ fsPc' = "returned"
                    /\ Goto("RECHECK2")
                    /\ UNCHANGED outcome
               ELSE /\ FsStep("fs:netdiag", r, "raised")
                    /\ Raised
                    /\ UNCHANGED phase
    /\ UNCHANGED <<at_port, at_port_failsafe, at_port_dns, dns_servers,
                   resolv_conf, invocation>>
    /\ UNCHANGED <<ccVars, probeVars, parseVars>>

\* The state main() starts from: nothing is kept from an earlier run.
MainFresh ==
    /\ mpc = "PROBE"
    /\ phase = "CHECK"
    /\ outcome = "running"
    /\ log = <<>>
    /\ at_port = None
    /\ at_port_failsafe = None
    /\ fsPc = "idle"
    /\ at_port_dns = None
    /\ dns_servers = <<>>
    /\ resolv_conf = <<>>

MainStart == MainFresh /\ invocation = 1

\* main is not running.
MainIdle ==
    /\ mpc = "idle"
    /\ phase = "CHECK"
    /\ outcome = "running"
    /\ log = <<>>
    /\ at_port = None
    /\ at_port_failsafe = None
    /\ fsPc = "idle"
    /\ at_port_dns = None
    /\ dns_servers = <<>>
    /\ resolv_conf = <<>>
    /\ invocation = 0

\* The external scheduler runs the script again (lines 394-395).
NewInvocation ==
    /\ mpc = "done"
    /\ invocation < MaxInvocations
    /\ invocation' = invocation + 1
    /\ mpc' = "PROBE"
    /\ phase' = "CHECK"
    /\ outcome' = "running"
    /\ log' = <<>>
    /\ at_port' = None
    /\ at_port_failsafe' = None
    /\ fsPc' = "idle"
    /\ at_port_dns' = None
    /\ dns_servers' = <<>>
    /\ resolv_conf' = <<>>
    /\ UNCHANGED <<ccVars, probeVars, parseVars>>

(***************************************************************************)
(* The two parsers on their own                                            *)
(***************************************************************************)
\* No parser runs on its own.
ParseIdle ==
    /\ ppc = "idle"
    /\ response = <<>>
    /\ sig_resp = [marker |-> FALSE, body |-> <<>>]

\* Fields of a reply line: blank, quotes only, a quoted address, and an
\* unquoted address with blanks around it.
DnsFields ==
    { <<" ">>, <<"\"", "\"">>, <<"\"", "10.0.0.1", "\"">>, <<" ", "10.0.0.2", " ">> }

\* "+CGCONTRDP: 1" followed by no, one or two more fields, and two lines
\* without the marker.
DnsLines ==
    LET prefix == <<"+CGCONTRDP: 1">>
    IN  {[marker |-> TRUE, fields |-> <<prefix>>]}
        \cup {[marker |-> TRUE, fields |-> <<prefix, f>>] : f \in DnsFields}
        \cup {[marker |-> TRUE, fields |-> <<prefix, f, g>>] : f \in DnsFields, g \in DnsFields}
        \cup {[marker |-> FALSE, fields |-> << <<"OK">> >>],
              [marker |-> FALSE, fields |-> << <<"\"", "10.0.0.3", "\"">>, <<"10.0.0.4">> >>]}

\* fail_safe has read the reply (line 320).
DnsStart ==
    /\ ppc = "dns"
    /\ response \in SeqsUpTo(DnsLines, MaxLines)
    /\ sig_resp = [marker |-> FALSE, body |-> <<>>]

\* Lines 323-331
DnsParse ==
    /\ ppc = "dns"
    /\ dns_servers' = ParseDns(response)
    /\ ppc' = "dns_parsed"
    /\ UNCHANGED <<mpc, phase, outcome, log, at_port, at_port_failsafe, fsPc,
                   at_port_dns, resolv_conf, invocation>>
    /\ UNCHANGED <<response, sig_resp>>
    /\ UNCHANGED <<ccVars, probeVars>>

\* Lines 336-346
DnsSelect ==
    /\ ppc = "dns_parsed"
    /\ resolv_conf' = ResolvConf(dns_servers)
    /\ ppc' = "dns_selected"
    /\ UNCHANGED <<mpc, phase, outcome, log, at_port, at_port_failsafe, fsPc,
                   at_port_dns, dns_servers, invocation>>
    /\ UNCHANGED <<response, sig_resp>>
    /\ UNCHANGED <<ccVars, probeVars>>

\* get_signal_strength has read the reply (line 62).
SignalStart ==
    /\ ppc = "signal"
    /\ response = <<>>
    /\ sig_resp \in [marker : BOOLEAN, body : SeqsUpTo(SigChars, MaxReplyLen)]

\* Lines 63-82 on the reply read.
SignalParse ==
    /\ ppc = "signal"
    /\ LET r == get_signal_strength(TRUE, "ok", sig_resp)
       IN  /\ sigResult' = r.result
           /\ report' = r.report
    /\ ppc' = "signal_parsed"
    /\ UNCHANGED <<candidates, behaviour, found_flag, found_port, tpc, taskOpen,
                   writers, cpc, clock, sigPort, callerOpen, ret, sawFlag>>
    /\ UNCHANGED <<response, sig_resp>>
    /\ UNCHANGED <<ccVars, mainVars>>

(***************************************************************************)
(* Specifications                                                          *)
(***************************************************************************)
CheckInit == CheckStart /\ ProbeIdle /\ MainIdle /\ ParseIdle

CheckNext ==
    \/ \E t \in CheckTasks : TaskComplete(t)
    \/ CheckNextFuture
    \/ CheckExhausted
    \/ CheckShutdown

SpecCheck == CheckInit /\ [][CheckNext]_vars

ProbeInit == ProbeStart /\ CheckIdle /\ MainIdle /\ ParseIdle

ProbeNext ==
    \/ \E i \in 1..MaxCandidates : TestPortEnter(i)
    \/ \E i \in 1..MaxCandidates : TestPortOpen(i)
    \/ \E i \in 1..MaxCandidates : TestPortExchange(i)
    \/ \E i \in 1..MaxCandidates : TestPortRecheck(i)
    \/ \E i \in 1..MaxCandidates : TestPortSetFlag(i)
    \/ \E i \in 1..MaxCandidates : TestPortStore(i)
    \/ \E i \in 1..MaxCandidates : TestPortClose(i)
    \/ DetectSubmit
    \/ Tick
    \/ DetectPollExit
    \/ DetectReadSlot
    \/ SignalOpen
    \/ SignalClose
    \/ DetectReturn

SpecProbe == ProbeInit /\ [][ProbeNext]_vars

\* Threads of the pool are scheduled, the clock advances, and the caller runs.
FairSpecProbe ==
    /\ SpecProbe
    /\ \A i \in 1..MaxCandidates :
         WF_vars(TestPortEnter(i) \/ TestPortOpen(i) \/ TestPortExchange(i)
                 \/ TestPortRecheck(i) \/ TestPortSetFlag(i) \/ TestPortStore(i)
                 \/ TestPortClose(i))
    /\ WF_vars(Tick)
    /\ WF_vars(DetectSubmit \/ DetectPollExit \/ DetectReadSlot \/ SignalOpen
               \/ SignalClose \/ DetectReturn)

MainInit == MainStart /\ CheckIdle /\ ProbeIdle /\ ParseIdle

MainNext ==
    \/ MainProbe
    \/ MainCheck
    \/ MainDiagnose
    \/ MainSoftRestart
    \/ MainFailsafeGate
    \/ MainDiagFallback
    \/ MainReboot
    \/ FsStop
    \/ FsSwitch
    \/ FsSettle
    \/ FsDhcp
    \/ FsProbe
    \/ FsQuery
    \/ FsResolv
    \/ FsNetdiagVpn
    \/ NewInvocation

SpecMain == MainInit /\ [][MainNext]_vars

DnsInit == DnsStart /\ CheckIdle /\ ProbeIdle /\ MainIdle

DnsNext ==
    \/ DnsParse
    \/ DnsSelect

SpecDns == DnsInit /\ [][DnsNext]_vars

SignalInit == SignalStart /\ CheckIdle /\ ProbeIdle /\ MainIdle

SignalNext == SignalParse

SpecSignal == SignalInit /\ [][SignalNext]_vars

(***************************************************************************)
(* Properties                                                              *)
(***************************************************************************)
CompletedTasks == {ccCompleted[i] : i \in 1..Len(ccCompleted)}

\* C1: check_connectivity_parallel returns True if and only if, among the
\* completed tasks, at least one DNS lookup resolved and at least one ping
\* exited 0, whatever each host does (a raising task fails alone) and in
\* whatever order the tasks complete.
CheckTrueIffDnsAndPing ==
    ccRet # "none" =>
        ( ccRet = "True"
          <=> /\ \E t \in CompletedTasks \cap DnsTasks : ccRaw[t] = "ok"
              /\ \E t \in CompletedTasks \cap PingTasks : ccRaw[t] = "ok" )

\* All DNS hosts fail, one of them by raising, a ping host succeeds, and the
\* check has returned False.
CheckFalseWhenAllDnsFail ==
    /\ ccPc = "done"
    /\ ccRet = "False"
    /\ \A t \in DnsTasks : ccRaw[t] # "ok"
    /\ \E t \in DnsTasks : ccRaw[t] = "exc"
    /\ \E t \in PingTasks : ccRaw[t] = "ok"

Responsive == {i \in DOMAIN behaviour : behaviour[i] = "ack"}

\* C2: when exactly one candidate answers the liveness command with OK,
\* detect_at_port returns that candidate.
ProbeReturnsTheResponsive ==
    (cpc = "done" /\ Cardinality(Responsive) = 1) =>
        \A i \in Responsive : ret = Port(i)

\* C3: the result slot is write-once: at most one thread stores into
\* found_port[0], and the slot holds what the first writer stored.
SlotWrittenOnce ==
    /\ Len(writers) <= 1
    /\ writers # <<>> => found_port = Port(writers[1])

ZeroResponsive == Responsive = {}

\* C4: with no responsive candidate, detect_at_port returns None, and its
\* caller always comes to return, whatever the probe threads do.
ProbeWithoutResponderEnds ==
    /\ [](ZeroResponsive /\ cpc = "done" => ret = None)
    /\ [](ZeroResponsive => <>(cpc = "done"))

\* The caller polled until the timeout with a thread still blocked in the
\* open of its device, and returned None.
ProbeTimedOutWithHungThread ==
    /\ cpc = "done"
    /\ ret = None
    /\ ZeroResponsive
    /\ clock = timeout
    /\ \E i \in DOMAIN tpc : behaviour[i] = "hang" /\ tpc[i] = "open"
    /\ \E i \in DOMAIN tpc : behaviour[i] = "noack" /\ tpc[i] = "done"

LogAt(step) == {i \in 1..Len(log) : log[i].at = step}

\* C5: fail_safe is entered only with a port from the probe at FAILSAFE_GATE,
\* and when that probe returns None the invocation skips fail_safe and ends
\* in REBOOT_PENDING.
FailSafeOnlyWithPort ==
    /\ LogAt("fs:stop") # {} =>
          \E i \in LogAt("FAILSAFE_GATE") : log[i].res = "port" /\ at_port_failsafe # None
    /\ (mpc = "done" /\ \E i \in LogAt("FAILSAFE_GATE") : log[i].res = "none") =>
          /\ LogAt("fs:stop") = {}
          /\ LogAt("REBOOT_PENDING") # {}
          /\ outcome = "reboot"

\* C6: a connectivity check that succeeds is the last step of the invocation,
\* which ends online: no later phase, no recovery action, no reboot intent.
SuccessfulCheckEndsOnline ==
    \A i \in 1..Len(log) :
        (log[i].at \in CheckStates /\ log[i].res = "True") =>
            /\ i = Len(log)
            /\ mpc = "done"
            /\ outcome = "online"
            /\ LogAt("FAILSAFE_GATE") = {} \/ log[i].at = "RECHECK2"
            /\ LogAt("REBOOT_PENDING") = {}

\* CHECK failed, the soft restart ran, and RECHECK1 succeeded.
OnlineAfterSoftRestart ==
    /\ mpc = "done"
    /\ outcome = "online"
    /\ \E i \in LogAt("CHECK") : log[i].res = "False"
    /\ LogAt("SOFT_RESTART") # {}
    /\ \E i \in LogAt("RECHECK1") : log[i].res = "True"

\* C7: an invocation that entered fail_safe runs the connectivity check
\* after it (RECHECK2).
FailSafeReachesRecheck2 ==
    (mpc = "done" /\ LogAt("fs:stop") # {}) => LogAt("RECHECK2") # {}

\* C8: every invocation ends online after a successful check or in
\* REBOOT_PENDING, never by an uncaught error.
InvocationEndsOnlineOrReboot ==
    mpc = "done" => outcome \in {"online", "reboot"}

FailSafeSequence ==
    <<"fs:stop", "fs:switch", "fs:settle", "fs:dhcp", "fs:probe", "fs:query",
      "fs:resolv", "fs:netdiag", "fs:vpn">>

IsFsStep(e) == e.at \in {FailSafeSequence[i] : i \in 1..Len(FailSafeSequence)}

FsStepsRun == LET run == SelectSeq(log, IsFsStep) IN [i \in 1..Len(run) |-> run[i].at]

\* C9: every run of fail_safe executes its whole sequence in order and ends
\* with the restart of the VPN service.
FailSafeRunsToVpnRestart ==
    fsPc \in {"returned", "raised"} => FsStepsRun = FailSafeSequence

PhaseRank(ph) ==
    CASE ph = "CHECK"        -> 1
      [] ph = "SOFT_RESTART" -> 2
      [] ph = "FAILSAFE"     -> 3
      [] OTHER               -> 4

LogPhase(e) == IF IsFsStep(e) THEN "FAILSAFE" ELSE PhaseOf(e.at)

\* C10: within an invocation the phase only moves forward through CHECK,
\* SOFT_RESTART, FAILSAFE, REBOOT_PENDING, no phase is entered again after it
\* was left, and every invocation starts in CHECK with nothing kept.
PhasesOnlyForward ==
    /\ [](\A i, j \in 1..Len(log) :
             i < j => PhaseRank(LogPhase(log[i])) <= PhaseRank(LogPhase(log[j])))
    /\ [](log = <<>> => phase = "CHECK" /\ mpc = "PROBE")
    /\ [][ /\ invocation' = invocation => PhaseRank(phase') >= PhaseRank(phase)
           /\ invocation' # invocation => phase' = "CHECK" /\ log' = <<>> ]_vars

\* The first invocation has ended and the second one, started afresh, went
\* through CHECK, the soft restart and the fail-safe gate to REBOOT_PENDING.
SecondInvocationEscalated ==
    /\ invocation = 2
    /\ phase = "REBOOT_PENDING"
    /\ LogAt("CHECK") # {}
    /\ LogAt("RECHECK1") # {}
    /\ LogAt("FAILSAFE_GATE") # {}

\* A device is held by a probe thread and by the caller at once.
SharedDevices == {Port(i) : i \in taskOpen} \cap {callerOpen}

\* C11: at most one session is open on a device at any time: the caller of
\* detect_at_port does not open the winning device for the signal read
\* while the winning thread still holds it.
OneSessionPerDevice == SharedDevices = {}

\* C12: a thread that opened its candidate releases it before it exits and
\* does so eventually, also after the caller stopped waiting for it: from
\* some point on no thread holds a device (a thread opens at most once).
ProbeTasksRelease ==
    /\ [](\A i \in DOMAIN tpc : tpc[i] = "done" => i \notin taskOpen)
    /\ <>[](taskOpen = {})

AbandonedThreadHoldsDevice == cpc = "done" /\ taskOpen # {}

NonBlank(f) == {k \in 1..Len(f) : f[k] # " "}

Least(S) == CHOOSE k \in S : \A m \in S : k <= m

Greatest(S) == CHOOSE k \in S : \A m \in S : m <= k

\* The text of a field between its surrounding blanks and, inside those, its
\* surrounding quotes.
FieldText(f) ==
    IF NonBlank(f) = {} THEN <<>>
    ELSE LET inner == {k \in Least(NonBlank(f))..Greatest(NonBlank(f)) : f[k] # "\""}
         IN  IF inner = {} THEN <<>> ELSE SubSeq(f, Least(inner), Greatest(inner))

\* A marker line whose last two fields are both non-empty.
HasDnsPair(line) ==
    /\ line.marker
    /\ Len(line.fields) >= 2
    /\ FieldText(line.fields[Len(line.fields) - 1]) # <<>>
    /\ FieldText(line.fields[Len(line.fields)]) # <<>>

DnsPairLines == {k \in 1..Len(response) : HasDnsPair(response[k])}

FallbackLines == << <<"nameserver", <<"8.8.8.8">>>>, <<"nameserver", <<"8.8.4.4">>>> >>

\* C13: the fallback pair 8.8.8.8, 8.8.4.4 is selected if and only if the
\* reply has no marker line whose last two fields (blanks and quotes
\* stripped) are both non-empty; otherwise the carrier DNS set is those two
\* fields of the first such line.
FallbackIffNoDnsPair ==
    ppc = "dns_selected" =>
        IF DnsPairLines = {}
          THEN dns_servers = <<>> /\ resolv_conf = FallbackLines
          ELSE LET fields == response[Least(DnsPairLines)].fields
                   dns1 == FieldText(fields[Len(fields) - 1])
                   dns2 == FieldText(fields[Len(fields)])
               IN  /\ dns_servers = <<dns1, dns2>>
                   /\ resolv_conf = << <<"nameserver", dns1>>, <<"nameserver", dns2>> >>

CarrierPairFromSecondLine ==
    /\ ppc = "dns_selected"
    /\ DnsPairLines = {2}
    /\ response[1].marker
    /\ dns_servers = << <<"10.0.0.1">>, <<"10.0.0.2">> >>

\* C14: get_signal_strength logs no report exactly for the replies without
\* the marker or with fewer than four numeric tokens; every other reply
\* gives a report.
ReportUnlessMarkerOrTokensMissing ==
    ppc = "signal_parsed" =>
        (sigResult # "report"
           <=> (~sig_resp.marker \/ Len(FindNumbers(sig_resp.body, 1)) < 4))

\* C15: once a DNS success and a ping success were observed, the return of
\* check_connectivity_parallel does not wait for the tasks still running.
SuccessReturnsWithoutWaiting ==
    (ccPc = "shutdown" /\ ccRet = "True") => ENABLED CheckShutdown

\* C16: an invocation starts with the connectivity check, and one whose
\* first check succeeds has not looked for or opened the modem's AT port.
InvocationStartsWithCheck ==
    /\ log # <<>> => log[1].at = "CHECK"
    /\ (mpc = "done" /\ outcome = "online" /\ LogAt("RECHECK1") = {})
         => LogAt("PROBE") = {}

\* C17: no exception leaves get_signal_strength; whatever happens in it, it
\* logs a report or nothing, and detect_at_port returns a port that a
\* thread stored in the slot.
SignalReadNeverRaises ==
    /\ cpc # "raised"
    /\ sigResult # "raise"
    /\ sigResult # "report" => report = <<>>
    /\ (cpc = "done" /\ sigPort # None) =>
         \E k \in 1..Len(writers) : ret = Port(writers[k])

PortReturnedAfterConversionError ==
    cpc = "done" /\ sigResult = "ValueError" /\ ret # None

\* C18: when the caller left its polling loop because the flag was set,
\* detect_at_port returns the claimed candidate, not None.
FlagSeenReturnsPort ==
    (cpc = "done" /\ sawFlag) => ret # None

\* C19: a port returned by detect_at_port is a candidate that answered the
\* AT command with OK in this call.
ReturnedPortAcknowledged ==
    (cpc = "done" /\ ret # None) =>
        \E i \in DOMAIN candidates :
            /\ Port(i) = ret
            /\ behaviour[i] = "ack"
            /\ \E k \in 1..Len(writers) : writers[k] = i

ReturnedBesideSilentCandidate ==
    /\ cpc = "done"
    /\ ret # None
    /\ \E j \in DOMAIN tpc : behaviour[j] \in {"noack", "raise"} /\ tpc[j] = "done"

DnsQueryFailed ==
    \/ \E j \in LogAt("fs:probe") : log[j].res = "none"
    \/ \E j \in LogAt("fs:query") : log[j].res = "caught"

\* C20: when the probe inside fail_safe finds no port or the DNS query
\* fails, fail_safe goes on, selects the fallback pair and writes exactly its
\* two nameserver lines; the configuration fail_safe writes is never empty.
FailSafeAbsorbsDnsFailure ==
    /\ fsPc = "resolv" => (DnsQueryFailed => dns_servers = <<>>)
    /\ LogAt("fs:resolv") # {} =>
         /\ resolv_conf # <<>>
         /\ DnsQueryFailed =>
              /\ \A k \in LogAt("fs:resolv") : log[k].res = "fallback"
              /\ resolv_conf = FallbackLines

FallbackWrittenWithoutPort ==
    /\ LogAt("fs:resolv") # {}
    /\ at_port_dns = None
    /\ resolv_conf = FallbackLines

====
